---- MODULE Spec2Model ----
(***************************************************************************)
(* Model of lalrpop's lr1/backtrace/example module: the ExampleIterator    *)
(* (new / populate / iterate / next), the derivation reconstructor unwind, *)
(* the layout engine Example::lengths / Example::positions, and the cells  *)
(* Example::paint draws on its canvas.                                     *)
(***************************************************************************)
EXTENDS Integers, Sequences, FiniteSets, TLC

VARIABLES
    backtrace,  \* the BacktraceNode structure: node id -> [item, parents]
    stack,      \* ExampleIterator.stack: Seq of ExampleState [node, index]
    result,     \* what the last call of next() returned
    yielded,    \* history: one entry per Some(example) returned so far
    nones,      \* history: how many times next() has returned None
    panicked,   \* "" or the name of the function that panicked
    pc,         \* position inside new()/next() (step-wise specification)
    depth,      \* pushes made so far by the running outermost populate()
    pending,    \* the Example (and its path) built by the running next() call
    layout      \* the state of one run of Example::paint

vars == <<backtrace, stack, result, yielded, nones, panicked, pc, depth,
          pending, layout>>

(***************************************************************************)
(* Bounds of the model.                                                    *)
(***************************************************************************)
MaxNodes == 4
MaxParents == 2
MaxChain == 3
MaxRhs == 3
MaxNoneCalls == 2
MaxSymbols == 3
MaxSymLen == 2
MaxLabelLen == 7
MaxReductions == 2

Min(a, b) == IF a < b THEN a ELSE b

Last(s) == s[Len(s)]

Pop(s) == SubSeq(s, 1, Len(s) - 1)

(***************************************************************************)
(* Grammar data: productions and dotted items (LR0Item).                   *)
(***************************************************************************)
SymbolNames == <<"W", "X", "Y", "Z", "Id", "V">>

NonterminalNames == <<"Empty", "Unit", "Foo", "Comma", "T", "LongName">>

\* One production for every right-hand-side length n.
Production(n) ==
    [nonterminal |-> NonterminalNames[n + 1],
     symbols     |-> SubSeq(SymbolNames, 1, n)]

\* LR0Item: a production and a cursor offset, 0 <= index <= len(symbols).
Items ==
    UNION { { [production |-> Production(n), index |-> k] : k \in 0 .. n } :
            n \in 0 .. MaxRhs }

(***************************************************************************)
(* Backtraces.  A node is a number; node 1 is the node given to new().      *)
(* parents lists nodes with larger numbers, so the structure is acyclic.    *)
(* A node shared by two parents lists stands for two equal subtrees.        *)
(***************************************************************************)
Root == 1

InjectiveSeqs(S, maxLen) ==
    { s \in UNION { [1 .. k -> S] : k \in 0 .. Min(maxLen, Cardinality(S)) } :
        \A i, j \in DOMAIN s : i # j => s[i] # s[j] }

RECURSIVE ParentMaps(_, _)
ParentMaps(i, n) ==
    IF i > n THEN { <<>> }
    ELSE { (i :> s) @@ f :
             s \in InjectiveSeqs((i + 1) .. n, MaxParents),
             f \in ParentMaps(i + 1, n) }

RECURSIVE ReachableFrom(_, _)
ReachableFrom(ps, n) ==
    {n} \cup UNION { ReachableFrom(ps, ps[n][i]) : i \in DOMAIN ps[n] }

\* The parent structures over n nodes in which every node is reachable.
Shapes(n) == { ps \in ParentMaps(1, n) : ReachableFrom(ps, Root) = 1 .. n }

\* The item a node of a branching backtrace carries.
ShapeItem(n) ==
    LET len == n % (MaxRhs + 1)
    IN  [production |-> Production(len), index |-> (n \div 2) % (len + 1)]

BranchingBacktraces ==
    { [i \in DOMAIN ps |-> [item |-> ShapeItem(i), parents |-> ps[i]]] :
        ps \in UNION { Shapes(n) : n \in 1 .. MaxNodes } }

\* A single path of up to MaxChain nodes carrying any items.
ChainBacktraces ==
    { [i \in DOMAIN items |->
         [item    |-> items[i],
          parents |-> IF i < Len(items) THEN <<i + 1>> ELSE <<>>]] :
        items \in UNION { [1 .. n -> Items] : n \in 1 .. MaxChain } }

\* The items of the two single-item scenarios: `Foo = W X (*) Y Z` and
\* `Foo = (*)` with an empty right-hand side.
FooItem ==
    [production |-> [nonterminal |-> "Foo", symbols |-> <<"W", "X", "Y", "Z">>],
     index      |-> 2]

EmptyFooItem ==
    [production |-> [nonterminal |-> "Foo", symbols |-> <<>>], index |-> 0]

\* A backtrace of one node without parents.
SingleItem(item) == <<[item |-> item, parents |-> <<>>]>>

ScenarioBacktraces == {SingleItem(FooItem), SingleItem(EmptyFooItem)}

Backtraces == BranchingBacktraces \cup ChainBacktraces \cup ScenarioBacktraces

Parents(n) == backtrace[n].parents

(***************************************************************************)
(* ExampleIterator: new, populate, iterate.                                *)
(***************************************************************************)
ExampleState(n, i) == [node |-> n, index |-> i]

\* populate's test `index == top.node.parents.len()` negated: the top of
\* the stack still has an untried parent.
HasParent(s) == Last(s).index # Len(Parents(Last(s).node))

\* A faulty variant of PushParent: always follows parents[0].
PushFirstParent(s) ==
    LET top == Last(s)
    IN  Append([s EXCEPT ![Len(s)].index = top.index + 1],
               ExampleState(Parents(top.node)[1], 0))

\* A faulty variant of PushParent: walks the parents from the last to the first.
PushParentLastFirst(s) ==
    LET top == Last(s)
    IN  Append([s EXCEPT ![Len(s)].index = top.index + 1],
               ExampleState(Parents(top.node)[Len(Parents(top.node)) - top.index], 0))

\* A faulty variant of PushParent: the index of the top is not bumped.
PushParentNoBump(s) ==
    LET top == Last(s)
    IN  Append(s, ExampleState(Parents(top.node)[top.index + 1], 0))

\* populate's body up to the recursive call: bump the top's index and push
\* the parent it pointed to.
PushParent(s) ==
    LET top == Last(s)
    IN  Append([s EXCEPT ![Len(s)].index = top.index + 1],
               ExampleState(Parents(top.node)[top.index + 1], 0))

\* A faulty variant of Populate: one parent is pushed and populate does not
\* call itself again.
PopulateOnce(s) == IF HasParent(s) THEN PushParent(s) ELSE s

\* The stack after populate() has returned.
RECURSIVE Populate(_)
Populate(s) == IF HasParent(s) THEN Populate(PushParent(s)) ELSE s

\* ExampleIterator::new
New(node) == Populate(<<ExampleState(node, 0)>>)

\* The assertion of iterate on the frame it pops.
IterateAssert(s) == Len(Parents(Last(s).node)) = 0 /\ Last(s).index = 0

\* A faulty variant of PopExhausted: the exhausted frame is left on the stack.
KeepExhausted(s) == s

\* `self.stack.pop()` in the loop of iterate: drop an exhausted frame.
PopExhausted(s) == Pop(s)

\* A faulty variant of IterateLoop: pops without trying the next parent.
RECURSIVE IterateLoopNoPopulate(_)
IterateLoopNoPopulate(s) ==
    IF s = <<>> THEN s ELSE IterateLoopNoPopulate(Pop(s))

\* The while loop of iterate, entered with the leaf popped.
RECURSIVE IterateLoop(_)
IterateLoop(s) ==
    IF s = <<>> THEN s
    ELSE IF HasParent(s) THEN Populate(s)
    ELSE IterateLoop(PopExhausted(s))

Iterate(s) == IterateLoop(Pop(s))

(***************************************************************************)
(* unwind: the Example of one path.                                        *)
(***************************************************************************)
Symbol(s) == [kind |-> "Symbol", symbol |-> s]

Epsilon == [kind |-> "Epsilon", symbol |-> ""]

Symbols(syms) == [i \in DOMAIN syms |-> Symbol(syms[i])]

\* Example { cursor: 0, symbols: vec![], reductions: vec![] }
EmptyExample == [cursor |-> 0, symbols |-> <<>>, reductions |-> <<>>]

\* `&item.production.symbols[..item.index]`
Prefix(item) == Symbols(SubSeq(item.production.symbols, 1, item.index))

\* A faulty variant of Suffix: the symbol at the cursor is kept.
SuffixFromCursor(item) ==
    IF item.index # Len(item.production.symbols)
    THEN Symbols(SubSeq(item.production.symbols, item.index + 1,
                        Len(item.production.symbols)))
    ELSE <<>>

\* `&item.production.symbols[item.index+1..]`, pushed only when the cursor
\* is not at the end of the production.
Suffix(item) ==
    IF item.index # Len(item.production.symbols)
    THEN Symbols(SubSeq(item.production.symbols, item.index + 2,
                        Len(item.production.symbols)))
    ELSE <<>>

\* `item.production.symbols[item.index..]`
FromCursor(item) ==
    Symbols(SubSeq(item.production.symbols, item.index + 1,
                   Len(item.production.symbols)))

\* A faulty variant of Cursor: off by one.
CursorOffByOne(symbols) == Len(symbols) + 1

\* `example.cursor = example.symbols.len()`
Cursor(symbols) == Len(symbols)

\* A faulty variant of PushEpsilon: no placeholder for an empty sequence.
NoEpsilon(start, symbols) == symbols

\* A faulty variant of PushEpsilon: the placeholder is pushed only when the
\* whole Example is still empty.
PushEpsilonIfExampleEmpty(start, symbols) ==
    IF symbols = <<>> THEN Append(symbols, Epsilon) ELSE symbols

\* Push Epsilon when the call has pushed nothing.
PushEpsilon(start, symbols) ==
    IF start = Len(symbols) THEN Append(symbols, Epsilon) ELSE symbols

\* A faulty variant of Reduction: the span covers only as many symbols as the
\* production has.
ReductionOwnSymbols(start, symbols, item) ==
    [start |-> start, end |-> start + Len(item.production.symbols),
     nonterminal |-> item.production.nonterminal]

\* The Reduction unwind records for `item`, entered at `start`.
Reduction(start, symbols, item) ==
    [start |-> start, end |-> Len(symbols),
     nonterminal |-> item.production.nonterminal]

\* A faulty variant of PushReduction: inserts at the front.
PrependReduction(reductions, r) == <<r>> \o reductions

\* `example.reductions.push(..)`
PushReduction(reductions, r) == Append(reductions, r)

\* An index into, and a slice of, a vector of the given length.
IndexInRange(i, len) == 0 <= i /\ i < len

SliceInRange(from, to, len) == 0 <= from /\ from <= to /\ to <= len

\* The slices unwind takes of an item's symbols.
UnwindInRange(item) ==
    LET len == Len(item.production.symbols)
    IN  /\ SliceInRange(0, item.index, len)
        /\ SliceInRange(item.index, len, len)
        /\ item.index # len => SliceInRange(item.index + 1, len, len)

RECURSIVE Unwind(_, _, _)
Unwind(item, rev_items, example) ==
    LET start == Len(example.symbols)
        ex1   == [example EXCEPT !.symbols = @ \o Prefix(item)]
        ex2   == IF rev_items # <<>>
                 THEN LET inner == Unwind(Head(rev_items), Tail(rev_items), ex1)
                      IN  [inner EXCEPT !.symbols = @ \o Suffix(item)]
                 ELSE [ex1 EXCEPT !.cursor  = Cursor(ex1.symbols),
                                  !.symbols = @ \o FromCursor(item)]
        ex3   == [ex2 EXCEPT !.symbols = PushEpsilon(start, @)]
    IN  [ex3 EXCEPT
           !.reductions = PushReduction(@, Reduction(start, ex3.symbols, item))]

\* `self.stack.iter().rev().map(|s| &s.node.item)`
RevItems(s) == [i \in 1 .. Len(s) |-> backtrace[s[Len(s) + 1 - i].node].item]

\* The Example next() builds from the stack.
UnwindStack(s) ==
    LET rev_items == RevItems(s)
    IN  Unwind(Head(rev_items), Tail(rev_items), EmptyExample)

(***************************************************************************)
(* Iterator::next, as one step.                                            *)
(***************************************************************************)
NotCalled == [kind |-> "NotCalled", example |-> EmptyExample]

None == [kind |-> "None", example |-> EmptyExample]

Some(example) == [kind |-> "Some", example |-> example]

\* The path the stack holds: its nodes, and the parent index chosen at
\* every node but the last.
StackPath(s) ==
    [nodes   |-> [i \in 1 .. Len(s) |-> s[i].node],
     choices |-> [i \in 1 .. Len(s) - 1 |-> s[i].index - 1]]

\* The stack next() leaves when called with a non-empty stack.
NextStack(s) == Iterate(s)

\* A faulty variant of NextStackExhausted: the enumeration starts over.
RestartStack(s) == New(Root)

\* The stack next() leaves when called with an empty stack.
NextStackExhausted(s) == s

NoPending == [example |-> EmptyExample, path |-> StackPath(<<>>)]

\* `AsciiCanvas::new(rows, columns)`, with the cells each call of paint()
\* touches: the symbols' text, and per reduction the two vertical strokes,
\* the horizontal stroke and the label.
NoCanvas ==
    [rows |-> 0, columns |-> 0, symbols |-> {}, vertical |-> <<>>,
     horizontal |-> <<>>, labels |-> <<>>]

NoLayout ==
    [phase |-> "none", example |-> EmptyExample, lengths |-> <<>>,
     positions |-> <<>>, next |-> 0, canvas |-> NoCanvas]

Init ==
    /\ backtrace \in Backtraces
    /\ stack = New(Root)
    /\ result = NotCalled
    /\ yielded = <<>>
    /\ nones = 0
    /\ panicked = ""
    /\ pc = "idle"
    /\ depth = 0
    /\ pending = NoPending
    /\ layout = NoLayout

NextCall ==
    /\ pc = "idle"
    /\ panicked = ""
    /\ IF stack = <<>>
       THEN /\ nones < MaxNoneCalls
            /\ result' = None
            /\ nones' = nones + 1
            /\ stack' = NextStackExhausted(stack)
            /\ UNCHANGED <<yielded, panicked>>
       ELSE IF \E i \in DOMAIN stack : ~UnwindInRange(backtrace[stack[i].node].item)
       THEN /\ panicked' = "unwind"
            /\ UNCHANGED <<stack, result, yielded, nones>>
       ELSE IF ~IterateAssert(stack)
       THEN /\ panicked' = "iterate"
            /\ stack' = Pop(stack)
            /\ UNCHANGED <<result, yielded, nones>>
       ELSE /\ result' = Some(UnwindStack(stack))
            /\ yielded' = Append(yielded, StackPath(stack))
            /\ stack' = NextStack(stack)
            /\ UNCHANGED <<nones, panicked>>
    /\ layout' = NoLayout
    /\ UNCHANGED <<backtrace, pc, depth, pending>>

(***************************************************************************)
(* new() and next() step by step: one step per call of populate, per test  *)
(* of the while loop of iterate, and per entry into next().                *)
(***************************************************************************)
InitSteps ==
    /\ backtrace \in BranchingBacktraces
    /\ stack = <<ExampleState(Root, 0)>>
    /\ result = NotCalled
    /\ yielded = <<>>
    /\ nones = 0
    /\ panicked = ""
    /\ pc = "new"
    /\ depth = 0
    /\ pending = NoPending
    /\ layout = NoLayout

\* next() returns Some(example).
ReturnSome ==
    /\ pc' = "idle"
    /\ depth' = 0
    /\ result' = Some(pending.example)
    /\ yielded' = Append(yielded, pending.path)
    /\ pending' = NoPending

\* Entry into next(): return None, or build the Example and enter iterate
\* (pop the leaf and check the assertion).
StepCall ==
    /\ pc = "idle"
    /\ panicked = ""
    /\ IF stack = <<>>
       THEN /\ nones < MaxNoneCalls
            /\ result' = None
            /\ nones' = nones + 1
            /\ stack' = NextStackExhausted(stack)
            /\ UNCHANGED <<pc, pending, panicked>>
       ELSE IF ~IterateAssert(stack)
       THEN /\ panicked' = "iterate"
            /\ stack' = Pop(stack)
            /\ UNCHANGED <<pc, pending, result, nones>>
       ELSE /\ pending' = [example |-> UnwindStack(stack),
                           path    |-> StackPath(stack)]
            /\ stack' = Pop(stack)
            /\ pc' = "loop"
            /\ UNCHANGED <<result, nones, panicked>>
    /\ UNCHANGED <<backtrace, yielded, depth, layout>>

\* The test of `while !self.stack.is_empty()`.
StepLoop ==
    /\ pc = "loop"
    /\ IF stack = <<>>
       THEN ReturnSome
       ELSE /\ pc' = "populate"
            /\ depth' = 0
            /\ UNCHANGED <<result, yielded, pending>>
    /\ UNCHANGED <<backtrace, stack, nones, panicked, layout>>

\* One call of populate: push a parent and recurse, or return.  The
\* outermost call returns true exactly when it pushed (depth > 0).
StepPopulate ==
    /\ pc \in {"new", "populate"}
    /\ IF HasParent(stack)
       THEN /\ stack' = PushParent(stack)
            /\ depth' = depth + 1
            /\ UNCHANGED <<pc, result, yielded, pending>>
       ELSE IF pc = "new"
       THEN /\ pc' = "idle"
            /\ depth' = 0
            /\ UNCHANGED <<stack, result, yielded, pending>>
       ELSE IF depth > 0
       THEN /\ ReturnSome
            /\ UNCHANGED stack
       ELSE /\ stack' = PopExhausted(stack)
            /\ pc' = "loop"
            /\ UNCHANGED <<depth, result, yielded, pending>>
    /\ UNCHANGED <<backtrace, nones, panicked, layout>>

NextSteps == StepCall \/ StepLoop \/ StepPopulate

\* The code is sequential and the caller keeps calling next(): a step that
\* can be taken is taken.
SpecSteps == InitSteps /\ [][NextSteps]_vars /\ WF_vars(NextSteps)

(***************************************************************************)
(* Example::lengths and Example::positions.  Sequences are 1-based here:   *)
(* the code's positions[i] is positions[i + 1] below.                      *)
(***************************************************************************)
\* `format!("{}", s).chars().count()`
CharCount(s) == Len(s)

\* A faulty variant of Lengths: the final 0 marker is missing.
LengthsNoMarker(example) ==
    [i \in DOMAIN example.symbols |->
        IF example.symbols[i].kind = "Symbol"
        THEN CharCount(example.symbols[i].symbol)
        ELSE 1]

\* Example::lengths: the width of every symbol, and a final 0 marker.
Lengths(example) ==
    [i \in DOMAIN example.symbols |->
        IF example.symbols[i].kind = "Symbol"
        THEN CharCount(example.symbols[i].symbol)
        ELSE 1] \o <<0>>

\* The scan: each symbol starts one blank after the end of the previous.
RECURSIVE InitialPositions(_)
InitialPositions(lengths) ==
    IF lengths = <<>> THEN <<>>
    ELSE LET before == InitialPositions(Pop(lengths))
         IN  IF before = <<>> THEN <<0>>
             ELSE Append(before, Last(before) + lengths[Len(lengths) - 1] + 1)

\* shift(&mut positions[from..to], amount)
Shift(positions, from, to, amount) ==
    [k \in DOMAIN positions |->
        IF from <= k - 1 /\ k - 1 < to THEN positions[k] + amount
        ELSE positions[k]]

\* A faulty variant of ShiftAfter: the column at `end` itself is not moved.
ShiftAfterOffByOne(positions, end, difference) ==
    Shift(positions, end + 1, Len(positions), difference)

\* A faulty variant of ShiftAfter: one column too far.
ShiftAfterTooFar(positions, end, difference) ==
    Shift(positions, end, Len(positions), difference + 1)

\* A faulty variant of ShiftAfter: only the column at `end` moves.
ShiftOnlyEndColumn(positions, end, difference) ==
    Shift(positions, end, end + 1, difference)

\* `shift(&mut positions[end..], difference)`
ShiftAfter(positions, end, difference) ==
    Shift(positions, end, Len(positions), difference)

\* A faulty variant of Justify: every gap gets amount + 1 when the
\* difference does not divide evenly.
RECURSIVE JustifyRoundUp(_, _, _, _, _, _)
JustifyRoundUp(positions, start, end, i, extra, amount) ==
    IF i >= end - start - 1 THEN positions
    ELSE JustifyRoundUp(Shift(positions, start + 1 + i, end,
                              IF extra > 0 THEN amount + 1 ELSE amount),
                        start, end, i + 1, extra, amount)

\* A faulty variant of Justify: the remainder goes to the last gaps.
RECURSIVE JustifyExtraLast(_, _, _, _, _, _)
JustifyExtraLast(positions, start, end, i, extra, amount) ==
    IF i >= end - start - 1 THEN positions
    ELSE JustifyExtraLast(Shift(positions, start + 1 + i, end,
                                IF i >= (end - start - 1) - extra
                                THEN amount + 1 ELSE amount),
                          start, end, i + 1, extra, amount)

\* The two justification loops, from gap i on: the first `extra` gaps get
\* amount + 1, the others amount.
RECURSIVE Justify(_, _, _, _, _, _)
Justify(positions, start, end, i, extra, amount) ==
    IF i >= end - start - 1 THEN positions
    ELSE Justify(Shift(positions, start + 1 + i, end,
                       IF i < extra THEN amount + 1 ELSE amount),
                 start, end, i + 1, extra, amount)

\* `required_len = nt_len + 4`
RequiredLen(reduction) == CharCount(reduction.nonterminal) + 4

\* `actual_len = end_position - start_position`
ActualLen(positions, lengths, reduction) ==
    (positions[reduction.end] + lengths[reduction.end])
        - positions[reduction.start + 1]

\* The body of the loop over the reductions, for one reduction.
PositionsStep(positions, lengths, reduction) ==
    LET start        == reduction.start
        end          == reduction.end
        num_syms     == end - start
        required_len == RequiredLen(reduction)
        actual_len   == ActualLen(positions, lengths, reduction)
        difference   == required_len - actual_len
        shifted      == ShiftAfter(positions, end, difference)
        num_gaps     == num_syms - 1
    IN  IF required_len < actual_len THEN positions
        ELSE IF num_syms > 1
        THEN Justify(shifted, start, end, 0,
                     difference % num_gaps, difference \div num_gaps)
        ELSE shifted

\* The assertion of the loop body.
PositionsAssert(reduction) == reduction.end - reduction.start > 0

\* positions() after the first k reductions have been processed.
RECURSIVE PositionsAfter(_, _, _)
PositionsAfter(example, lengths, k) ==
    IF k = 0 THEN InitialPositions(lengths)
    ELSE PositionsStep(PositionsAfter(example, lengths, k - 1), lengths,
                       example.reductions[k])

\* Example::positions
Positions(example, lengths) ==
    PositionsAfter(example, lengths, Len(example.reductions))

(***************************************************************************)
(* positions() on any well-formed Example: the input is drawn from the     *)
(* Examples with non-empty, nested-or-disjoint reductions listed inner     *)
(* before outer, and the loop runs one reduction per step.                 *)
(***************************************************************************)
SymbolOfLen == <<"X", "A1", "Foo", "Expr", "Comma">>

LabelOfLen ==
    <<"T", "Id", "Foo", "Expr", "Comma", "Assign", "Pattern", "TypeArgs",
      "Statement", "Expression", "LongLabel22", "VeryLongName">>

LayoutSymbols == { Epsilon, Symbol(SymbolOfLen[MaxSymLen]) }

\* A short, a middling and a long nonterminal name.
LayoutLabels ==
    { LabelOfLen[1], LabelOfLen[(MaxLabelLen + 1) \div 2], LabelOfLen[MaxLabelLen] }

LayoutReductions(n) ==
    { r \in [start : 0 .. n - 1, end : 1 .. n, nonterminal : LayoutLabels] :
        r.start < r.end }

\* r may follow the reductions rs: it is disjoint from, or contains, each.
MayFollow(rs, r) ==
    \A i \in DOMAIN rs :
        \/ rs[i].end <= r.start
        \/ r.end <= rs[i].start
        \/ (r.start <= rs[i].start /\ rs[i].end <= r.end)

\* The reduction lists of length k over n symbols: non-empty spans, nested
\* or disjoint, inner before outer.
RECURSIVE ReductionLists(_, _)
ReductionLists(n, k) ==
    IF k = 0 THEN { <<>> }
    ELSE LET shorter == ReductionLists(n, k - 1)
         IN  UNION { { Append(rs, r) : r \in { q \in LayoutReductions(n) : MayFollow(rs, q) } } :
                     rs \in shorter }

\* The reduction lists of up to MaxReductions reductions over n symbols.
LayoutReductionLists(n) ==
    UNION { ReductionLists(n, k) : k \in 0 .. MaxReductions }

InitLayout ==
    /\ backtrace = <<>>
    /\ stack = <<>>
    /\ result = NotCalled
    /\ yielded = <<>>
    /\ nones = 0
    /\ panicked = ""
    /\ pc = "idle"
    /\ depth = 0
    /\ pending = NoPending
    /\ \E n \in 1 .. MaxSymbols :
          \E syms \in [1 .. n -> LayoutSymbols], rs \in LayoutReductionLists(n) :
             layout = [NoLayout EXCEPT
                         !.phase   = "input",
                         !.example = [cursor |-> 0, symbols |-> syms,
                                      reductions |-> rs]]

LoopPhase(example, next) ==
    IF next = Len(example.reductions) THEN "done" ELSE "loop"

\* lengths() and the initial scan of positions().
LayoutBegin ==
    /\ layout.phase = "input"
    /\ layout' = [layout EXCEPT
                    !.lengths   = Lengths(layout.example),
                    !.positions = InitialPositions(Lengths(layout.example)),
                    !.phase     = LoopPhase(layout.example, 0)]
    /\ UNCHANGED <<backtrace, stack, result, yielded, nones, panicked, pc,
                   depth, pending>>

\* One iteration of the loop over the reductions.
LayoutReduction ==
    /\ layout.phase = "loop"
    /\ panicked = ""
    /\ LET reduction == layout.example.reductions[layout.next + 1]
       IN  IF ~PositionsAssert(reduction)
           THEN /\ panicked' = "positions"
                /\ UNCHANGED layout
           ELSE /\ layout' = [layout EXCEPT
                                !.positions = PositionsStep(layout.positions,
                                                            layout.lengths,
                                                            reduction),
                                !.next      = layout.next + 1,
                                !.phase     = LoopPhase(layout.example,
                                                        layout.next + 1)]
                /\ UNCHANGED panicked
    /\ UNCHANGED <<backtrace, stack, result, yielded, nones, pc, depth,
                   pending>>

(***************************************************************************)
(* Example::paint.  The canvas is the set of cells each call touches, rows *)
(* and columns counted from 0 as in the code.                              *)
(***************************************************************************)
\* `canvas.write(row, column, chars)`: one cell per character, rightwards.
WriteCells(row, column, count) ==
    {<<row, column + i>> : i \in 0 .. count - 1}

\* `canvas.draw_vertical_line(rows, column)` for the rows from .. to - 1.
VerticalLineCells(from, to, column) ==
    {<<row, column>> : row \in from .. to - 1}

\* `canvas.draw_horizontal_line(row, columns)` for the columns from .. to - 1.
HorizontalLineCells(row, from, to) ==
    {<<row, column>> : column \in from .. to - 1}

\* `let rows = 1 + self.reductions.len() * 2`
CanvasRows(example) == 1 + Len(example.reductions) * 2

\* `let columns = *positions.last().unwrap()`
CanvasColumns(positions) == Last(positions)

\* The first loop: every concrete symbol's text on row 0 at its column; an
\* Epsilon writes nothing.
SymbolCells(example, positions) ==
    UNION {IF example.symbols[i].kind = "Symbol"
           THEN WriteCells(0, positions[i],
                           CharCount(example.symbols[i].symbol))
           ELSE {} : i \in DOMAIN example.symbols}

\* `let row = 2 + index * 2`, for the index-th reduction counted from 0.
BracketRow(index) == 2 + index * 2

\* `let start_column = positions[reduction.start]`
StartColumn(positions, reduction) == positions[reduction.start + 1]

\* `let end_column = positions[reduction.end] - 1`
EndColumn(positions, reduction) == positions[reduction.end + 1] - 1

\* The two `draw_vertical_line` calls of one reduction.
VerticalCells(positions, reduction, index) ==
    VerticalLineCells(1, BracketRow(index) + 1,
                      StartColumn(positions, reduction))
       \cup VerticalLineCells(1, BracketRow(index) + 1,
                              EndColumn(positions, reduction) - 1)

\* The `draw_horizontal_line` call of one reduction.
HorizontalCells(positions, reduction, index) ==
    HorizontalLineCells(BracketRow(index), StartColumn(positions, reduction),
                        EndColumn(positions, reduction))

\* A faulty variant of LabelColumn: the label starts too far right.
LabelColumnTooFar(positions, reduction) == positions[reduction.start + 1] + 4

\* `let column = positions[reduction.start] + 2`
LabelColumn(positions, reduction) == positions[reduction.start + 1] + 2

\* The third loop: the label of one reduction on its bracket row.
LabelCells(positions, reduction, index) ==
    WriteCells(BracketRow(index), LabelColumn(positions, reduction),
               CharCount(reduction.nonterminal))

\* The canvas after the three loops of paint().
Canvas(example, positions) ==
    [rows       |-> CanvasRows(example),
     columns    |-> CanvasColumns(positions),
     symbols    |-> SymbolCells(example, positions),
     vertical   |-> [i \in DOMAIN example.reductions |->
                       VerticalCells(positions, example.reductions[i], i - 1)],
     horizontal |-> [i \in DOMAIN example.reductions |->
                       HorizontalCells(positions, example.reductions[i], i - 1)],
     labels     |-> [i \in DOMAIN example.reductions |->
                       LabelCells(positions, example.reductions[i], i - 1)]]

\* The indexing, slicing and unsigned subtractions of one iteration of the
\* loop of positions().
PositionsStepInRange(positions, lengths, reduction) ==
    LET start == reduction.start
        end   == reduction.end
    IN  /\ end - start >= 0
        /\ IndexInRange(start, Len(positions))
        /\ IndexInRange(end - 1, Len(positions))
        /\ IndexInRange(end - 1, Len(lengths))
        /\ ActualLen(positions, lengths, reduction) >= 0
        /\ RequiredLen(reduction) >= ActualLen(positions, lengths, reduction) =>
              /\ SliceInRange(end, Len(positions), Len(positions))
              /\ \A i \in 0 .. end - start - 2 :
                    SliceInRange(start + 1 + i, end, Len(positions))

\* positions() runs its first k iterations without a panic.
RECURSIVE PositionsInRange(_, _, _)
PositionsInRange(example, lengths, k) ==
    \/ k = 0
    \/ /\ PositionsInRange(example, lengths, k - 1)
       /\ PositionsAssert(example.reductions[k])
       /\ PositionsStepInRange(PositionsAfter(example, lengths, k - 1),
                               lengths, example.reductions[k])

\* The indexing and unsigned subtractions of the three loops of paint().
PaintInRange(example, positions) ==
    /\ positions # <<>>
    /\ \A i \in DOMAIN example.symbols :
          example.symbols[i].kind = "Symbol" =>
             IndexInRange(i - 1, Len(positions))
    /\ \A i \in DOMAIN example.reductions :
          /\ IndexInRange(example.reductions[i].start, Len(positions))
          /\ IndexInRange(example.reductions[i].end, Len(positions))
          /\ EndColumn(positions, example.reductions[i]) >= 0
          /\ EndColumn(positions, example.reductions[i]) - 1 >= 0

\* The three loops of paint(), on the columns positions() returned.
PaintDraw ==
    /\ layout.phase = "done"
    /\ panicked = ""
    /\ IF ~PaintInRange(layout.example, layout.positions)
       THEN /\ panicked' = "paint"
            /\ UNCHANGED layout
       ELSE /\ layout' = [layout EXCEPT
                            !.canvas = Canvas(layout.example, layout.positions),
                            !.phase  = "painted"]
            /\ UNCHANGED panicked
    /\ UNCHANGED <<backtrace, stack, result, yielded, nones, pc, depth,
                   pending>>

NextLayout == LayoutBegin \/ LayoutReduction \/ PaintDraw

SpecLayout == InitLayout /\ [][NextLayout]_vars

(***************************************************************************)
(* The caller of the enumerator paints every Example it is given.          *)
(***************************************************************************)
\* Example::paint as one step, on the Example next() returned last.
Paint ==
    /\ pc = "idle"
    /\ panicked = ""
    /\ result.kind = "Some"
    /\ layout.phase = "none"
    /\ LET example   == result.example
           lengths   == Lengths(example)
       IN  IF ~PositionsInRange(example, lengths, Len(example.reductions))
           THEN /\ panicked' = "positions"
                /\ UNCHANGED layout
           ELSE IF ~PaintInRange(example, Positions(example, lengths))
           THEN /\ panicked' = "paint"
                /\ UNCHANGED layout
           ELSE /\ layout' = [phase     |-> "painted",
                              example   |-> example,
                              lengths   |-> lengths,
                              positions |-> Positions(example, lengths),
                              next      |-> Len(example.reductions),
                              canvas    |-> Canvas(example,
                                                   Positions(example, lengths))]
                /\ UNCHANGED panicked
    /\ UNCHANGED <<backtrace, stack, result, yielded, nones, pc, depth,
                   pending>>

Next == NextCall \/ Paint

Spec == Init /\ [][Next]_vars

(***************************************************************************)
(* Reference notions the claims are stated with.                           *)
(***************************************************************************)
\* The root-to-leaf paths from node n, each as the sequence of parent
\* indices (0-based) chosen at the nodes before the leaf.
RECURSIVE PathsFrom(_)
PathsFrom(n) ==
    IF Parents(n) = <<>> THEN { <<>> }
    ELSE UNION { { <<i - 1>> \o p : p \in PathsFrom(Parents(n)[i]) } :
                 i \in DOMAIN Parents(n) }

\* The nodes a sequence of parent indices visits from node n.
RECURSIVE NodesOf(_, _)
NodesOf(n, choices) ==
    IF choices = <<>> THEN <<n>>
    ELSE <<n>> \o NodesOf(Parents(n)[Head(choices) + 1], Tail(choices))

\* The number of root-to-leaf paths from node n.
RECURSIVE SumOver(_, _)
RECURSIVE NumPaths(_)
SumOver(ps, k) == IF k = 0 THEN 0 ELSE NumPaths(ps[k]) + SumOver(ps, k - 1)
NumPaths(n) ==
    IF Parents(n) = <<>> THEN 1 ELSE SumOver(Parents(n), Len(Parents(n)))

\* The nodes on some path from the root, and the branch points among them.
RECURSIVE Reachable(_)
Reachable(n) == {n} \cup UNION { Reachable(Parents(n)[i]) : i \in DOMAIN Parents(n) }

BranchPoints == { n \in Reachable(Root) : Len(Parents(n)) > 1 }

RECURSIVE ParentCountProduct(_)
ParentCountProduct(S) ==
    IF S = {} THEN 1
    ELSE LET n == CHOOSE m \in S : TRUE
         IN  Len(Parents(n)) * ParentCountProduct(S \ {n})

\* The paths from node n in depth-first, first-parent-first order.
RECURSIVE PathsInOrder(_)
RECURSIVE PathsVia(_, _)
PathsVia(n, k) ==
    IF k > Len(Parents(n)) THEN <<>>
    ELSE LET sub == PathsInOrder(Parents(n)[k])
         IN  [i \in DOMAIN sub |-> <<k - 1>> \o sub[i]] \o PathsVia(n, k + 1)
PathsInOrder(n) == IF Parents(n) = <<>> THEN << <<>> >> ELSE PathsVia(n, 1)

LexLess(a, b) ==
    \/ \E i \in 1 .. Min(Len(a), Len(b)) :
          a[i] < b[i] /\ \A j \in 1 .. i - 1 : a[j] = b[j]
    \/ Len(a) < Len(b) /\ a = SubSeq(b, 1, Len(a))

\* The Example of the path that takes the parent indices `choices`.
ExampleOfPath(choices) ==
    LET nodes == NodesOf(Root, choices)
        rev   == [i \in DOMAIN nodes |-> backtrace[nodes[Len(nodes) + 1 - i]].item]
    IN  Unwind(Head(rev), Tail(rev), EmptyExample)

YieldedChoices == [k \in DOMAIN yielded |-> yielded[k].choices]

Exhausted == result.kind = "None"

ItemOf(n) == backtrace[n].item

Disjoint(a, b) == a.end <= b.start \/ b.end <= a.start

Contains(a, b) == a.start <= b.start /\ b.end <= a.end

SameSpan(a, b) == a.start = b.start /\ a.end = b.end

Produced == result.kind = "Some"

Reductions == result.example.reductions

(***************************************************************************)
(* The claims.                                                             *)
(***************************************************************************)

\* C1: the Examples yielded correspond one-to-one to the root-to-leaf
\* paths: every yielded Example was built from a stack holding one such
\* path, no path is yielded twice, and when next() has returned None every
\* path has been yielded.
C1_OnePathPerExample ==
    /\ \A k \in DOMAIN yielded :
          /\ yielded[k].choices \in PathsFrom(Root)
          /\ yielded[k].nodes = NodesOf(Root, yielded[k].choices)
    /\ \A j, k \in DOMAIN yielded :
          j # k => yielded[j].choices # yielded[k].choices
    /\ Exhausted =>
          { yielded[k].choices : k \in DOMAIN yielded } = PathsFrom(Root)

C1_Witness == Exhausted /\ Len(yielded) >= 3

\* C2 as stated: at exhaustion the number of Examples yielded is the
\* product of the parent counts of the reachable branch points.
C2_ProductOfParentCounts ==
    Exhausted => Len(yielded) = ParentCountProduct(BranchPoints)

\* C2 amended: the number of Examples yielded before None is the number of
\* root-to-leaf paths (the next call returns None exactly when that many
\* have been yielded); it is the product of the parent counts exactly when
\* every path passes through every branch point, and smaller otherwise.
C2_NumberOfPaths ==
    /\ panicked = "" => (stack = <<>> <=> Len(yielded) = NumPaths(Root))
    /\ Exhausted => Len(yielded) = NumPaths(Root)
    /\ NumPaths(Root) <= ParentCountProduct(BranchPoints)
    /\ NumPaths(Root) = ParentCountProduct(BranchPoints) <=>
          \A p \in PathsFrom(Root) :
             \A b \in BranchPoints :
                \E i \in DOMAIN NodesOf(Root, p) : NodesOf(Root, p)[i] = b

C2_Witness ==
    /\ Exhausted
    /\ Len(yielded) = 3
    /\ ParentCountProduct(BranchPoints) = 4

\* C3: the Examples come in depth-first, first-parent-first order: the
\* first path takes parent 0 everywhere, each later path is strictly
\* greater than the one before in the lexicographic order of the parent
\* indices, and the sequence yielded so far is the same prefix of the
\* depth-first listing of the paths for every enumerator on the backtrace.
C3_DepthFirstOrder ==
    /\ yielded # <<>> =>
          \A i \in DOMAIN yielded[1].choices : yielded[1].choices[i] = 0
    /\ \A k \in 1 .. Len(yielded) - 1 :
          LexLess(yielded[k].choices, yielded[k + 1].choices)
    /\ YieldedChoices = SubSeq(PathsInOrder(Root), 1, Len(yielded))
    /\ Produced => result.example = ExampleOfPath(Last(yielded).choices)

C3_Witness ==
    /\ Len(yielded) = 3
    /\ yielded[2].choices # yielded[1].choices
    /\ Len(yielded[3].choices) < Len(yielded[1].choices)

\* C4: enumeration terminates: every call of new() and next() returns, and
\* after finitely many calls the stack is empty and next() returns None.
C4_EnumerationTerminates ==
    /\ <>(pc = "idle" /\ stack = <<>> /\ Exhausted)
    /\ [](pc # "idle" => <>(pc = "idle"))

C4_Witness ==
    /\ pc = "idle"
    /\ stack = <<>>
    /\ Exhausted
    /\ Len(yielded) = 3
    /\ \E k \in DOMAIN yielded : Len(yielded[k].nodes) = 4

\* C5: once next() has returned None the stack is empty, and a further
\* call returns None again and leaves the stack and the history unchanged.
C5_ExhaustionIsPermanent ==
    [][Exhausted =>
         /\ stack = <<>>
         /\ stack' = stack
         /\ result'.kind = "None"
         /\ yielded' = yielded]_vars

C5_Witness == Exhausted /\ nones >= 2 /\ yielded # <<>>

\* C6 as stated: any two distinct reductions of a produced Example are
\* disjoint or one strictly contains the other (never equal spans).
C6_StrictNesting ==
    Produced =>
       \A i, j \in DOMAIN Reductions :
          i # j =>
             \/ Disjoint(Reductions[i], Reductions[j])
             \/ /\ Contains(Reductions[i], Reductions[j]) \/ Contains(Reductions[j], Reductions[i])
                /\ ~SameSpan(Reductions[i], Reductions[j])

\* C6 amended: any two distinct reductions of a produced Example are
\* disjoint or one contains the other, never partially overlapping; the
\* spans of two consecutive reductions are equal exactly when the outer
\* item pushes no symbol of its own (no prefix and no suffix).
C6_NestedOrDisjoint ==
    Produced =>
       /\ \A i, j \in DOMAIN Reductions :
             i # j =>
                \/ Disjoint(Reductions[i], Reductions[j])
                \/ Contains(Reductions[i], Reductions[j])
                \/ Contains(Reductions[j], Reductions[i])
       /\ LET nodes == Last(yielded).nodes
          IN  \A i \in 1 .. Len(Reductions) - 1 :
                 SameSpan(Reductions[i], Reductions[i + 1]) <=>
                    /\ Prefix(ItemOf(nodes[i + 1])) = <<>>
                    /\ Suffix(ItemOf(nodes[i + 1])) = <<>>

C6_Witness ==
    /\ Produced
    /\ Len(Reductions) = 3
    /\ SameSpan(Reductions[1], Reductions[2])
    /\ ~SameSpan(Reductions[2], Reductions[3])

\* C7: the reduction list of a produced Example is ordered inner before
\* outer: for i < j, reductions[j] starts no later and ends no earlier
\* than reductions[i].
C7_InnerBeforeOuter ==
    Produced =>
       \A i, j \in DOMAIN Reductions :
          i < j =>
             /\ Reductions[j].start <= Reductions[i].start
             /\ Reductions[i].end <= Reductions[j].end

C7_Witness ==
    /\ Produced
    /\ \E i, j \in DOMAIN Reductions :
          /\ i < j
          /\ Reductions[j].start < Reductions[i].start
          /\ Reductions[i].end < Reductions[j].end

\* C8: every reduction of a produced Example has end > start, whatever
\* the position of a production with an empty right-hand side on the path,
\* so the assertion of positions() holds for it.
C8_NonEmptySpans ==
    Produced =>
       \A i \in DOMAIN Reductions :
          /\ Reductions[i].end > Reductions[i].start
          /\ PositionsAssert(Reductions[i])

C8_Witness ==
    /\ Produced
    /\ Len(Reductions) = 3
    /\ \A i \in 1 .. 3 : ItemOf(Last(yielded).nodes[i]).production.symbols = <<>>

\* C9: the cursor of a produced Example lies within its symbols:
\* 0 <= cursor <= len(symbols).
C9_CursorBound ==
    Produced =>
       /\ 0 <= result.example.cursor
       /\ result.example.cursor <= Len(result.example.symbols)

C9_Witness ==
    /\ Produced
    /\ result.example.cursor = Len(result.example.symbols)
    /\ result.example.cursor >= 2

\* The width positions() left for reduction r: the code's
\* positions[end] - positions[start].
Width(positions, r) == positions[r.end + 1] - positions[r.start + 1]

LayoutDone == layout.phase = "done"

\* C10: when positions() returns, every reduction (not only the last one
\* processed) has positions[end] - positions[start] >= label_length + 4.
C10_LayoutSufficiency ==
    LayoutDone =>
       \A i \in DOMAIN layout.example.reductions :
          Width(layout.positions, layout.example.reductions[i])
             >= CharCount(layout.example.reductions[i].nonterminal) + 4

\* An inner reduction that was too narrow, and whose columns a later,
\* outer reduction spread further.
C10_Witness ==
    /\ LayoutDone
    /\ Len(layout.example.reductions) = 2
    /\ LET inner == layout.example.reductions[1]
           outer == layout.example.reductions[2]
       IN  /\ outer.start <= inner.start /\ inner.end < outer.end
           /\ Width(InitialPositions(layout.lengths), inner) < RequiredLen(inner)
           /\ Width(layout.positions, inner) > RequiredLen(inner) + 1

LayoutComputed == layout.phase \in {"loop", "done", "painted"}

\* The deficit positions() computed for the k-th reduction (negative when
\* the span was wide enough and the reduction was skipped).
DeficitAt(k) ==
    RequiredLen(layout.example.reductions[k])
       - ActualLen(PositionsAfter(layout.example, layout.lengths, k - 1),
                   layout.lengths, layout.example.reductions[k])

\* C11: in the columns positions() computes, after every processed
\* reduction, consecutive symbols never touch: positions[i+1] >=
\* positions[i] + lengths[i] + 1, so the columns are strictly increasing.
C11_MonotoneAndSeparated ==
    LayoutComputed =>
       \A i \in 1 .. Len(layout.positions) - 1 :
          /\ layout.positions[i + 1] >= layout.positions[i] + layout.lengths[i] + 1
          /\ layout.positions[i + 1] > layout.positions[i]

\* A justified reduction over three symbols whose deficit did not divide
\* evenly, with another symbol after it.
C11_Witness ==
    /\ LayoutDone
    /\ Len(layout.example.symbols) = 3
    /\ \E k \in DOMAIN layout.example.reductions :
          /\ layout.example.reductions[k].start = 0
          /\ layout.example.reductions[k].end = 2
          /\ DeficitAt(k) > 0
    /\ layout.positions[2] > layout.positions[1] + layout.lengths[1] + 1

\* The bracket paint() draws for r spans the columns positions[start] ..
\* positions[end] - 2: `end_column - start_column`.
BracketWidth(positions, r) == positions[r.end + 1] - 1 - positions[r.start + 1]

\* The blanks between the last symbol of r and the column after it.
TrailingGap(positions, lengths, r) ==
    positions[r.end + 1] - (positions[r.end] + lengths[r.end])

\* The reduction positions() processed last and the columns before it did.
LastProcessed == layout.example.reductions[layout.next]

BeforeLast == PositionsAfter(layout.example, layout.lengths, layout.next - 1)

JustProcessed == LayoutComputed /\ layout.next >= 1

\* C12 as stated: right after positions() processed a reduction whose span
\* was narrower than label + 4, its bracket is exactly label + 4 wide and
\* the columns from `end` on moved by exactly the deficit.
C12_ExactFit ==
    (JustProcessed /\ DeficitAt(layout.next) > 0) =>
       /\ BracketWidth(layout.positions, LastProcessed)
             = RequiredLen(LastProcessed)
       /\ \A i \in LastProcessed.end + 1 .. Len(layout.positions) :
             layout.positions[i] = BeforeLast[i] + DeficitAt(layout.next)

\* C12: right after positions() processed a reduction whose span was not
\* wider than label + 4, the columns from `end` on moved by exactly the
\* deficit and the bracket is label + 4 wide plus whatever the gap after the
\* span's last symbol exceeded one blank; no bracket is ever narrower than
\* label + 4.
C12_FitUpToTrailingGap ==
    /\ (JustProcessed /\ DeficitAt(layout.next) >= 0) =>
          /\ \A i \in LastProcessed.end + 1 .. Len(layout.positions) :
                layout.positions[i] = BeforeLast[i] + DeficitAt(layout.next)
          /\ BracketWidth(layout.positions, LastProcessed)
                = RequiredLen(LastProcessed)
                   + TrailingGap(BeforeLast, layout.lengths, LastProcessed) - 1
          /\ TrailingGap(BeforeLast, layout.lengths, LastProcessed) >= 1
    /\ LayoutComputed =>
          \A k \in 1 .. layout.next :
             BracketWidth(layout.positions, layout.example.reductions[k])
                >= RequiredLen(layout.example.reductions[k])

\* A reduction processed with a deficit after an inner reduction over its
\* last symbol alone had already widened the gap behind that symbol.
C12_Witness ==
    /\ JustProcessed
    /\ DeficitAt(layout.next) > 0
    /\ TrailingGap(BeforeLast, layout.lengths, LastProcessed) > 1
    /\ BracketWidth(layout.positions, LastProcessed)
          > RequiredLen(LastProcessed)

\* The distance from the column of symbol j to the column after it
\* (j counted from 0 as in the code).
ColumnGap(positions, j) == positions[j + 2] - positions[j + 1]

\* C18: a reduction over n > 1 symbols processed with deficit d > 0 widens
\* its i-th internal gap (i from 0, g = n - 1 gaps) by exactly
\* d div g, plus one when i < d mod g; its last symbol moves right by exactly
\* d and the gap behind that symbol is unchanged.
C18_FullJustification ==
    (/\ JustProcessed
     /\ DeficitAt(layout.next) > 0
     /\ LastProcessed.end - LastProcessed.start > 1) =>
       LET r == LastProcessed
           d == DeficitAt(layout.next)
           g == r.end - r.start - 1
       IN  /\ \A i \in 0 .. g - 1 :
                 ColumnGap(layout.positions, r.start + i)
                    - ColumnGap(BeforeLast, r.start + i)
                  = (d \div g) + (IF i < d % g THEN 1 ELSE 0)
           /\ layout.positions[r.end] = BeforeLast[r.end] + d
           /\ layout.positions[r.start + 1] = BeforeLast[r.start + 1]
           /\ TrailingGap(layout.positions, layout.lengths, r)
                 = TrailingGap(BeforeLast, layout.lengths, r)

\* A reduction over three symbols whose deficit is odd, so that the first
\* of its two gaps gets one column more than the second.
C18_Witness ==
    /\ JustProcessed
    /\ LastProcessed.end - LastProcessed.start = 3
    /\ DeficitAt(layout.next) > 1
    /\ DeficitAt(layout.next) % 2 = 1
    /\ ColumnGap(layout.positions, LastProcessed.start)
          - ColumnGap(BeforeLast, LastProcessed.start)
        = 1 + (ColumnGap(layout.positions, LastProcessed.start + 1)
                 - ColumnGap(BeforeLast, LastProcessed.start + 1))

\* The reductions positions() processed before the last one.
EarlierProcessed == 1 .. layout.next - 1

\* The column differences between the symbols of r are the same in both
\* layouts: the span moved as one block.
MovedAsOneBlock(r, old, new) ==
    \A a, b \in r.start + 1 .. r.end : new[b] - new[a] = old[b] - old[a]

Painted == layout.phase = "painted"

\* C13: in the grid paint() draws, the cells of a reduction's label (row
\* 2 + 2i, columns positions[start] + 2 up to positions[start] + 2 +
\* label_length) hold no vertical stroke of any reduction, so the label
\* ends before the right stroke of its own bracket at positions[end] - 2 and
\* no stroke of a later reduction crosses it.
C13_LabelsNotCrossed ==
    Painted =>
       \A i \in DOMAIN layout.example.reductions :
          /\ Cardinality(layout.canvas.labels[i])
                = CharCount(layout.example.reductions[i].nonterminal)
          /\ \A j \in DOMAIN layout.example.reductions :
                layout.canvas.labels[i] \cap layout.canvas.vertical[j] = {}
          /\ \A cell \in layout.canvas.labels[i] :
                /\ cell[1] = 2 + 2 * (i - 1)
                /\ cell[2] > layout.positions[layout.example.reductions[i].start + 1]
                /\ cell[2] < layout.positions[layout.example.reductions[i].end + 1] - 2

\* A painted Example in which the longest label sits under a single short
\* symbol and the strokes of a later, outer reduction pass through its row.
C13_Witness ==
    /\ Painted
    /\ Len(layout.example.reductions) = 2
    /\ layout.example.reductions[1].end - layout.example.reductions[1].start = 1
    /\ CharCount(layout.example.reductions[1].nonterminal) = MaxLabelLen
    /\ Contains(layout.example.reductions[2], layout.example.reductions[1])
    /\ ~SameSpan(layout.example.reductions[2], layout.example.reductions[1])
    /\ \E cell \in layout.canvas.vertical[2] : cell[1] = 2

\* The items on the path of the Example produced last, outermost first.
PathItems ==
    LET nodes == yielded[Len(yielded)].nodes
    IN  [i \in DOMAIN nodes |-> ItemOf(nodes[Len(nodes) + 1 - i])]

\* The reference expansion of a path given outermost item first: a non-final
\* item (P, k) gives P.symbols[0..k], the expansion of the rest, then
\* P.symbols[k+1..]; the final item gives all its symbols.
RECURSIVE Expansion(_)
Expansion(items) ==
    LET P == Head(items).production.symbols
        k == Head(items).index
    IN  IF Len(items) = 1 THEN P
        ELSE SubSeq(P, 1, k) \o Expansion(Tail(items)) \o SubSeq(P, k + 2, Len(P))

RECURSIVE SumOfOffsets(_)
SumOfOffsets(items) ==
    IF items = <<>> THEN 0 ELSE Head(items).index + SumOfOffsets(Tail(items))

\* The grammar symbols of an Example, placeholders left out.
RECURSIVE ConcreteSymbols(_)
ConcreteSymbols(symbols) ==
    IF symbols = <<>> THEN <<>>
    ELSE IF Head(symbols).kind = "Symbol"
    THEN <<Head(symbols).symbol>> \o ConcreteSymbols(Tail(symbols))
    ELSE ConcreteSymbols(Tail(symbols))

EpsilonPlaces(symbols) == {i \in DOMAIN symbols : symbols[i] = Epsilon}

FinalItem == PathItems[Len(PathItems)]

\* C14: the grammar symbols of a produced Example are the reference
\* expansion of its path, the cursor is the sum of the offsets of the
\* path's items, and apart from the placeholder of C15 nothing else is in
\* the symbols; the single item `Foo = W X (*) Y Z` yields [W, X, Y, Z],
\* cursor 2 and the one reduction {0, 4, Foo}.
C14_UnwindIsExpansion ==
    Produced =>
       /\ ConcreteSymbols(result.example.symbols) = Expansion(PathItems)
       /\ result.example.cursor = SumOfOffsets(PathItems)
       /\ FinalItem.production.symbols # <<>> =>
             result.example.symbols = Symbols(Expansion(PathItems))
       /\ backtrace = SingleItem(FooItem) =>
             result.example =
                [cursor     |-> 2,
                 symbols    |-> <<Symbol("W"), Symbol("X"), Symbol("Y"),
                                  Symbol("Z")>>,
                 reductions |-> <<[start |-> 0, end |-> 4,
                                   nonterminal |-> "Foo"]>>]

\* An Example unwound from a path of three items, each with symbols on
\* both sides of its cursor.
C14_Witness ==
    /\ Produced
    /\ Len(PathItems) = 3
    /\ \A i \in DOMAIN PathItems :
          /\ PathItems[i].index > 0
          /\ PathItems[i].index < Len(PathItems[i].production.symbols)
    /\ result.example.cursor = SumOfOffsets(PathItems)
    /\ Len(result.example.symbols) > result.example.cursor + 2

\* C15: a produced Example holds at most one Epsilon; it holds one exactly
\* when the production of the path's final item has no symbols, and then
\* the Epsilon stands at the cursor; the single item `Foo = (*)` with an
\* empty right-hand side yields [Epsilon] and the one reduction {0, 1, Foo}.
C15_EpsilonOnlyForEmpty ==
    Produced =>
       /\ Cardinality(EpsilonPlaces(result.example.symbols)) <= 1
       /\ EpsilonPlaces(result.example.symbols) # {}
             <=> FinalItem.production.symbols = <<>>
       /\ EpsilonPlaces(result.example.symbols) # {} =>
             /\ \E i \in DOMAIN PathItems : PathItems[i].production.symbols = <<>>
             /\ EpsilonPlaces(result.example.symbols)
                   = {result.example.cursor + 1}
       /\ backtrace = SingleItem(EmptyFooItem) =>
             result.example =
                [cursor     |-> 0,
                 symbols    |-> <<Epsilon>>,
                 reductions |-> <<[start |-> 0, end |-> 1,
                                   nonterminal |-> "Foo"]>>]

\* An Epsilon between the prefix and the suffix of an outer item, for a
\* final item with an empty production.
C15_Witness ==
    /\ Produced
    /\ Len(PathItems) >= 2
    /\ FinalItem.production.symbols = <<>>
    /\ Len(result.example.symbols) >= 3
    /\ result.example.symbols[2] = Epsilon

\* The number of nodes on the longest path from node n to a leaf.
RECURSIVE LongestPath(_)
LongestPath(n) ==
    IF Parents(n) = <<>> THEN 1
    ELSE 1 + CHOOSE m \in {LongestPath(Parents(n)[i]) : i \in DOMAIN Parents(n)} :
                 \A i \in DOMAIN Parents(n) : LongestPath(Parents(n)[i]) <= m

\* C16: the assertion of iterate never fails: after new() and after every
\* next() that leaves the stack non-empty, the top frame is a node without
\* parents and its index is 0.
C16_AssertionNeverFires ==
    /\ panicked # "iterate"
    /\ stack # <<>> =>
          /\ Len(Parents(Last(stack).node)) = 0
          /\ Last(stack).index = 0

\* The stack after a next() that popped an exhausted frame and descended
\* again through the root's second parent.
C16_Witness ==
    /\ Len(yielded) >= 2
    /\ panicked = ""
    /\ Len(stack) >= 3
    /\ stack[1].index = 2
    /\ Len(yielded[Len(yielded)].nodes) # Len(stack)

\* C17: between calls the stack is one path from the root: its first frame
\* is the node given to new(), every frame but the top has 1 <= index <=
\* #parents and the frame above it holds parents[index - 1], so the stack
\* is never longer than the longest path from the root to a leaf.
C17_StackIsPath ==
    stack # <<>> =>
       /\ stack[1].node = Root
       /\ \A i \in 1 .. Len(stack) - 1 :
             /\ 1 <= stack[i].index
             /\ stack[i].index <= Len(Parents(stack[i].node))
             /\ stack[i + 1].node = Parents(stack[i].node)[stack[i].index]
       /\ Len(stack) <= LongestPath(Root)

\* A stack as long as the longest path, through a second parent, after
\* some Example has been produced.
C17_Witness ==
    /\ Len(yielded) >= 1
    /\ Len(stack) >= 3
    /\ Len(stack) = LongestPath(Root)
    /\ \E i \in 1 .. Len(stack) - 1 : stack[i].index = 2

\* Every cell paint() touched.
CanvasCells ==
    layout.canvas.symbols
       \cup UNION {layout.canvas.vertical[i] \cup layout.canvas.horizontal[i]
                      \cup layout.canvas.labels[i] :
                   i \in DOMAIN layout.example.reductions}

\* C20: for the Examples the enumerator produces from items with
\* 0 <= index <= len(symbols), unwind, positions and paint never panic on
\* an index, a slice or an unsigned subtraction, and every cell paint()
\* touches lies inside the canvas it allocated: row <= 2 * #reductions and
\* column < positions[len(symbols)].
C20_InRangeAndInsideCanvas ==
    /\ panicked = ""
    /\ Produced => \A i \in DOMAIN PathItems : UnwindInRange(PathItems[i])
    /\ Painted =>
          /\ layout.example = result.example
          /\ \A k \in DOMAIN layout.example.reductions :
                /\ DeficitAt(k) >= 0
                   \/ PositionsAfter(layout.example, layout.lengths, k)
                         = PositionsAfter(layout.example, layout.lengths, k - 1)
                /\ layout.positions[layout.example.reductions[k].end + 1] - 1 - 1
                      >= 0
          /\ layout.canvas.rows = 1 + 2 * Len(layout.example.reductions)
          /\ layout.canvas.columns
                = layout.positions[Len(layout.example.symbols) + 1]
          /\ \A cell \in CanvasCells :
                /\ 0 <= cell[1]
                /\ cell[1] <= 2 * Len(layout.example.reductions)
                /\ 0 <= cell[2]
                /\ cell[2] < layout.positions[Len(layout.example.symbols) + 1]

\* A painted Example of the enumerator with an Epsilon and two reductions,
\* whose last bracket reaches the last row and the last but one column.
C20_Witness ==
    /\ Painted
    /\ Produced
    /\ Len(layout.example.reductions) >= 2
    /\ EpsilonPlaces(layout.example.symbols) # {}
    /\ <<2 * Len(layout.example.reductions), layout.canvas.columns - 2>>
          \in layout.canvas.vertical[Len(layout.example.reductions)]
====
